---- MODULE Spec2Model ----
(***************************************************************************)
(* Mobile price prediction: processor-speed resolver, serving path         *)
(* (application.py, prediction_pipeline.py) and training run               *)
(* (training_pipeline.py).                                                 *)
(*                                                                         *)
(* Numbers are fixed-point hundredths: 3.78 GHz is 378, 180 g is 18000.    *)
(* Text is a TLA+ string; Len, SubSeq and \o act on it character-wise.     *)
(***************************************************************************)
EXTENDS Integers, Sequences, FiniteSets, TLC

VARIABLES
    \* ---- resolver (pure function under test)
    name,          \* processor_name argument
    speedPred,     \* prediction_pipeline.get_processor_speed(name): <<>> before the call, <<value>> after
    speedTrain,    \* training_pipeline.get_processor_speed(name): <<>> before the call, <<value>> after
    \* ---- serving process (application.py, ModelPredictor)
    modelFile,     \* artifacts/best_model.pkl at service start: "present", "missing", "corrupt"
    scalerFile,    \* artifacts/scaler.pkl at service start
    scalerAcceptsText, \* whether the installed StandardScaler converts a text array to numbers
    svc,           \* "boot" before application.py's module body ran, "ready" after
    selfModel,     \* predictor.model: <<>> is None, <<m>> a loaded model
    selfScaler,    \* predictor.scaler: <<>> is None, <<s>> a loaded scaler
    loadError,     \* message logged by ModelPredictor.__init__, "" when none
    MODEL_LOADED,  \* application.MODEL_LOADED
    pc,            \* per request thread: position in predict() / make_prediction()
    data,          \* per thread: request.get_json()
    callerList,    \* per thread: the list object predict() built and passed in
    localArr,      \* per thread: the array object np.array() allocated
    inputRef,      \* per thread: object the local name input_data refers to
    processor,     \* per thread: local processor
    speed,         \* per thread: local processor_speed
    scaled,        \* per thread: local input_scaled
    mpResult,      \* per thread: outcome of make_prediction
    response,      \* per thread: last HTTP response of /predict
    scalerApplied, \* per thread: scaler.transform was called for the current request
    modelApplied,  \* per thread: model.predict was called for the current request
    \* ---- training run (train_and_save_model)
    dsExists,      \* the dataset file exists
    dsDecodable,   \* encodings under which the dataset file decodes
    dataset,       \* the rows of the file, as row kinds (see RawRow)
    run,           \* number of the current training run
    tpc,           \* stage the run is about to execute, or "done" / "aborted"
    encIdx,        \* which read_csv attempt is next (index into Encodings)
    tried,         \* encodings attempted so far in this run, in order
    df,            \* the data frame
    stages,        \* stages this run has completed, in order
    failure,       \* stage and exception that aborted this run
    fittedScaler,  \* local scaler once fitted
    fittedModel,   \* local model once fitted
    diskModel,     \* artifacts/best_model.pkl: writing run and content
    diskScaler,    \* artifacts/scaler.pkl: writing run and content
    \* ---- field cleaning (pure functions under test)
    cleanIn,       \* how the cell of the file is written (see CellText)
    cleanUnit,     \* the unit argument of clean_numeric_column
    numericOut,    \* clean_numeric_column on the cell: <<>> before the call, <<value>> after
    priceOut       \* clean_price on the cell: <<>> before the call, <<value>> after

resolverVars == <<name, speedPred, speedTrain>>

cleanVars == <<cleanIn, cleanUnit, numericOut, priceOut>>

envVars == <<modelFile, scalerFile, scalerAcceptsText>>

predictorVars == <<svc, selfModel, selfScaler, loadError, MODEL_LOADED>>

threadVars ==
    <<pc, data, callerList, localArr, inputRef, processor, speed, scaled, mpResult,
      response, scalerApplied, modelApplied>>

serveVars == <<envVars, predictorVars, threadVars>>

trainVars ==
    <<dsExists, dsDecodable, dataset, run, tpc, encIdx, tried, df, stages, failure,
      fittedScaler, fittedModel, diskModel, diskScaler>>

vars == <<resolverVars, cleanVars, serveVars, trainVars>>

(***************************************************************************)
(* Text helpers: str.lower() and the `in` substring test                   *)
(***************************************************************************)
LowerChar(c) ==
    CASE c = "A" -> "a" [] c = "B" -> "b" [] c = "C" -> "c" [] c = "D" -> "d"
      [] c = "E" -> "e" [] c = "F" -> "f" [] c = "G" -> "g" [] c = "H" -> "h"
      [] c = "I" -> "i" [] c = "J" -> "j" [] c = "K" -> "k" [] c = "L" -> "l"
      [] c = "M" -> "m" [] c = "N" -> "n" [] c = "O" -> "o" [] c = "P" -> "p"
      [] c = "Q" -> "q" [] c = "R" -> "r" [] c = "S" -> "s" [] c = "T" -> "t"
      [] c = "U" -> "u" [] c = "V" -> "v" [] c = "W" -> "w" [] c = "X" -> "x"
      [] c = "Y" -> "y" [] c = "Z" -> "z" [] OTHER -> c

RECURSIVE Lower(_)
Lower(s) ==
    IF Len(s) = 0 THEN ""
    ELSE LowerChar(SubSeq(s, 1, 1)) \o Lower(SubSeq(s, 2, Len(s)))

\* Python's `sub in s` for strings
Contains(sub, s) ==
    \E i \in 1..(Len(s) - Len(sub) + 1) : SubSeq(s, i, i + Len(sub) - 1) = sub

(***************************************************************************)
(* The two processor-speed tables, in dict insertion order                 *)
(***************************************************************************)
DefaultSpeed == 200

ProcessorSpeedsPrediction ==
    << <<"A17 Pro", 378>>, <<"A17 Bionic", 378>>, <<"A16 Bionic", 346>>,
       <<"A15 Bionic", 323>>, <<"A14 Bionic", 310>>, <<"A13 Bionic", 265>>,
       <<"A12 Bionic", 250>>, <<"A11 Bionic", 240>>,
       <<"Snapdragon 8 Gen 3", 330>>, <<"Snapdragon 8 Gen 2", 320>>,
       <<"Snapdragon 8+ Gen 1", 320>>, <<"Snapdragon 8 Gen 1", 300>>,
       <<"Snapdragon 7+ Gen 2", 291>>, <<"Snapdragon 7 Gen 1", 240>>,
       <<"MediaTek Dimensity 9300", 325>>, <<"MediaTek Dimensity 9200", 305>>,
       <<"MediaTek Dimensity 9000", 305>>, <<"MediaTek Dimensity 8300", 335>>,
       <<"MediaTek Dimensity 8200", 310>>,
       <<"Exynos 2400", 320>>, <<"Exynos 2200", 280>>, <<"Exynos 1380", 240>>,
       <<"Google Tensor G3", 291>>, <<"Google Tensor G2", 285>>,
       <<"Google Tensor", 280>> >>

\* faulty variant: the two Tensor entries moved behind the generic one in one copy
ProcessorSpeedsTrainingDrifted ==
    << <<"A17 Pro", 378>>, <<"A17 Bionic", 378>>, <<"A16 Bionic", 346>>,
       <<"A15 Bionic", 323>>, <<"A14 Bionic", 310>>, <<"A13 Bionic", 265>>,
       <<"A12 Bionic", 250>>, <<"A11 Bionic", 240>>,
       <<"Snapdragon 8 Gen 3", 330>>, <<"Snapdragon 8 Gen 2", 320>>,
       <<"Snapdragon 8+ Gen 1", 320>>, <<"Snapdragon 8 Gen 1", 300>>,
       <<"Snapdragon 7+ Gen 2", 291>>, <<"Snapdragon 7 Gen 1", 240>>,
       <<"MediaTek Dimensity 9300", 325>>, <<"MediaTek Dimensity 9200", 305>>,
       <<"MediaTek Dimensity 9000", 305>>, <<"MediaTek Dimensity 8300", 335>>,
       <<"MediaTek Dimensity 8200", 310>>,
       <<"Exynos 2400", 320>>, <<"Exynos 2200", 280>>, <<"Exynos 1380", 240>>,
       <<"Google Tensor", 280>>, <<"Google Tensor G3", 291>>,
       <<"Google Tensor G2", 285>> >>

ProcessorSpeedsTraining ==
    << <<"A17 Pro", 378>>, <<"A17 Bionic", 378>>, <<"A16 Bionic", 346>>,
       <<"A15 Bionic", 323>>, <<"A14 Bionic", 310>>, <<"A13 Bionic", 265>>,
       <<"A12 Bionic", 250>>, <<"A11 Bionic", 240>>,
       <<"Snapdragon 8 Gen 3", 330>>, <<"Snapdragon 8 Gen 2", 320>>,
       <<"Snapdragon 8+ Gen 1", 320>>, <<"Snapdragon 8 Gen 1", 300>>,
       <<"Snapdragon 7+ Gen 2", 291>>, <<"Snapdragon 7 Gen 1", 240>>,
       <<"MediaTek Dimensity 9300", 325>>, <<"MediaTek Dimensity 9200", 305>>,
       <<"MediaTek Dimensity 9000", 305>>, <<"MediaTek Dimensity 8300", 335>>,
       <<"MediaTek Dimensity 8200", 310>>,
       <<"Exynos 2400", 320>>, <<"Exynos 2200", 280>>, <<"Exynos 1380", 240>>,
       <<"Google Tensor G3", 291>>, <<"Google Tensor G2", 285>>,
       <<"Google Tensor", 280>> >>

\* faulty variant: the comparison forgets .lower() on the name
KeyMatchesCaseSensitive(key, processor_name) ==
    Contains(Lower(key), processor_name)

\* `key.lower() in processor_name.lower()`
KeyMatches(key, processor_name) ==
    Contains(Lower(key), Lower(processor_name))

\* the for loop over processor_speeds.items(), from entry i on
RECURSIVE LookupFrom(_, _, _)
LookupFrom(table, i, processor_name) ==
    IF i > Len(table) THEN DefaultSpeed
    ELSE IF KeyMatches(table[i][1], processor_name) THEN table[i][2]
    ELSE LookupFrom(table, i + 1, processor_name)

get_processor_speed_prediction(processor_name) ==
    LookupFrom(ProcessorSpeedsPrediction, 1, processor_name)

get_processor_speed_training(processor_name) ==
    LookupFrom(ProcessorSpeedsTraining, 1, processor_name)

(***************************************************************************)
(* Numbers as text: str() of a JSON number, float() of a text              *)
(***************************************************************************)
FracDigits(fr) ==
    IF fr % 10 = 0 THEN ToString(fr \div 10)
    ELSE IF fr < 10 THEN "0" \o ToString(fr) ELSE ToString(fr)

\* str(x) of a JSON number: an int prints without a point, a float with one
FormatNum(n) ==
    IF n % 100 = 0 THEN ToString(n \div 100)
    ELSE ToString(n \div 100) \o "." \o FracDigits(n % 100)

\* str(x) of a Python float (the resolver always returns a float)
FormatFloat(n) ==
    IF n % 100 = 0 THEN ToString(n \div 100) \o ".0"
    ELSE ToString(n \div 100) \o "." \o FracDigits(n % 100)

DigitValue(c) ==
    CASE c = "0" -> 0 [] c = "1" -> 1 [] c = "2" -> 2 [] c = "3" -> 3 [] c = "4" -> 4
      [] c = "5" -> 5 [] c = "6" -> 6 [] c = "7" -> 7 [] c = "8" -> 8 [] c = "9" -> 9
      [] OTHER -> -1

IsDigits(s) == \A i \in 1..Len(s) : DigitValue(SubSeq(s, i, i)) >= 0

RECURSIVE DigitsUpTo(_, _)
\* the value of the first n characters of a digit string
DigitsUpTo(s, n) ==
    IF n = 0 THEN 0 ELSE DigitsUpTo(s, n - 1) * 10 + DigitValue(SubSeq(s, n, n))

DigitsToInt(s) == DigitsUpTo(s, Len(s))

\* text -> float64: <<v>> when the text is a decimal number, <<>> when it is not
ParseNum(s) ==
    LET dots == {i \in 1..Len(s) : SubSeq(s, i, i) = "."} IN
    IF dots = {} THEN
        IF Len(s) > 0 /\ IsDigits(s) THEN <<DigitsToInt(s) * 100>> ELSE <<>>
    ELSE IF Cardinality(dots) = 1 THEN
        LET d  == CHOOSE i \in dots : TRUE
            ip == SubSeq(s, 1, d - 1)
            fp == SubSeq(s, d + 1, Len(s))
        IN  IF IsDigits(ip) /\ IsDigits(fp) /\ Len(ip) + Len(fp) > 0 /\ Len(fp) <= 2
            THEN <<DigitsToInt(ip) * 100
                   + (IF Len(fp) = 1 THEN DigitsToInt(fp) * 10 ELSE DigitsToInt(fp))>>
            ELSE <<>>
    ELSE <<>>

(***************************************************************************)
(* Feature contract                                                        *)
(***************************************************************************)
\* training_pipeline: the columns X is selected by, scaler and model are fitted on
FeatureColumns ==
    <<"Mobile Weight", "RAM", "Front Camera", "Back Camera",
      "Processor_Speed", "Battery Capacity", "Screen Size", "Launched Year">>

\* application.predict: required_features
RequiredFeatures ==
    <<"Mobile Weight", "RAM", "Front Camera", "Back Camera", "Processor",
      "Battery Capacity", "Screen Size", "Launched Year">>

\* faulty variant: the extraction lists RAM before Mobile Weight
InputOrderSwapped ==
    <<"RAM", "Mobile Weight", "Front Camera", "Back Camera", "Processor",
      "Battery Capacity", "Screen Size", "Launched Year">>

\* application.predict: the order input_data is extracted in
InputOrder ==
    <<"Mobile Weight", "RAM", "Front Camera", "Back Camera", "Processor",
      "Battery Capacity", "Screen Size", "Launched Year">>

\* index of the processor entry: input_data[4], counted from 1 here
ProcessorIndex == 5

(***************************************************************************)
(* Artifacts: what a present, intact pickle file deserialises to.          *)
(* The scaler holds mean_ and scale_ per feature column; the model stands  *)
(* for the fitted regressor as one decision tree over the scaled vector.   *)
(***************************************************************************)
ArtifactScaler ==
    [mean  |-> <<19000, 800, 1600, 4800, 300, 450000, 650, 202300>>,
     scale |-> <<100, 100, 100, 100, 50, 100, 100, 100>>]

ArtifactModel ==
    [low |-> 2999900, mid |-> 5499900, high |-> 11999900]

\* StandardScaler.transform on one row of numbers
ScalerTransform(s, x) ==
    [i \in 1..Len(x) |-> ((x[i] - s.mean[i]) * 100) \div s.scale[i]]

\* model.predict on one scaled row
ModelPredict(m, x) ==
    IF x[5] <= 0 THEN (IF x[1] <= 0 THEN m.low ELSE m.mid) ELSE m.high

(***************************************************************************)
(* ModelPredictor.__init__ / load_model / load_scaler                      *)
(***************************************************************************)
ModelPath == "artifacts/best_model.pkl"
ScalerPath == "artifacts/scaler.pkl"

\* load_model: [raised, value, msg]
load_model(file) ==
    IF file = "present" THEN [raised |-> FALSE, value |-> <<ArtifactModel>>, msg |-> ""]
    ELSE IF file = "missing"
    THEN [raised |-> TRUE, value |-> <<>>, msg |-> "Model file not found at " \o ModelPath]
    ELSE [raised |-> TRUE, value |-> <<>>, msg |-> "Error loading model: unpickling failed"]

load_scaler(file) ==
    IF file = "present" THEN [raised |-> FALSE, value |-> <<ArtifactScaler>>, msg |-> ""]
    ELSE IF file = "missing"
    THEN [raised |-> TRUE, value |-> <<>>, msg |-> "Scaler file not found at " \o ScalerPath]
    ELSE [raised |-> TRUE, value |-> <<>>, msg |-> "Error loading scaler: unpickling failed"]

\* faulty variant: the except clause resets the scaler only
ModelPredictor_initKeepsModel(mf, sf) ==
    LET m == load_model(mf)
        s == load_scaler(sf)
    IN  IF m.raised
        THEN [raised |-> FALSE, model |-> <<>>, scaler |-> <<>>,
              logged |-> "Error loading model or scaler: " \o m.msg]
        ELSE IF s.raised
        THEN [raised |-> FALSE, model |-> m.value, scaler |-> <<>>,
              logged |-> "Error loading model or scaler: " \o s.msg]
        ELSE [raised |-> FALSE, model |-> m.value, scaler |-> s.value, logged |-> ""]

\* __init__: the try block assigns model, then scaler; the except sets both to None
\* and returns normally
ModelPredictor_init(mf, sf) ==
    LET m == load_model(mf)
        s == load_scaler(sf)
    IN  IF m.raised
        THEN [raised |-> FALSE, model |-> <<>>, scaler |-> <<>>,
              logged |-> "Error loading model or scaler: " \o m.msg]
        ELSE IF s.raised
        THEN [raised |-> FALSE, model |-> <<>>, scaler |-> <<>>,
              logged |-> "Error loading model or scaler: " \o s.msg]
        ELSE [raised |-> FALSE, model |-> m.value, scaler |-> s.value, logged |-> ""]

(***************************************************************************)
(* make_prediction, statement by statement                                 *)
(***************************************************************************)
NotLoadedMessage == "Model or scaler not loaded. Please ensure both files exist."
TextArrayMessage ==
    "dtype='numeric' is not compatible with arrays of bytes/strings."
    \o "Convert your data to numeric values explicitly instead."
NotNumberMessage == "could not convert string to float"

\* the except clause of make_prediction: every exception leaves as a CustomException
WrapPredictionError(msg) ==
    [kind |-> "error", type |-> "CustomException",
     msg |-> "Error in making prediction: " \o msg, value |-> <<>>]

NoResult == [kind |-> "none", type |-> "", msg |-> "", value |-> <<>>]

\* faulty variant: the check is left out
ArtifactsAbsentUnchecked(m, s) == FALSE

\* `self.model is None or self.scaler is None`
ArtifactsAbsent(m, s) == m = <<>> \/ s = <<>>

MaxOf(S) == CHOOSE x \in S : \A y \in S : y <= x

\* a JSON / Python scalar: a number (hundredths) or a text
Num(n) == [t |-> "num", n |-> n, s |-> ""]
Str(s) == [t |-> "str", n |-> 0, s |-> s]

\* a Python list object
ListObject(items) == [dtype |-> "list", items |-> items, width |-> 0]

NoObject == [dtype |-> "none", items |-> <<>>, width |-> 0]

\* str() of a scalar, as numpy stores it in a text array
ToText(v) == IF v.t = "str" THEN v.s ELSE FormatNum(v.n)

\* characters numpy reserves for a scalar in a text array: 21 for an int, 32 for a float
TextWidth(v) ==
    IF v.t = "str" THEN Len(v.s) ELSE IF v.n % 100 = 0 THEN 21 ELSE 32

\* np.array(list): a float64 array when every entry is a number, otherwise a
\* fixed-width text array holding the text of every entry
np_array(items) ==
    IF \A i \in 1..Len(items) : items[i].t = "num"
    THEN [dtype |-> "float64", items |-> items, width |-> 0]
    ELSE [dtype |-> "text",
          items |-> [i \in 1..Len(items) |-> Str(ToText(items[i]))],
          width |-> MaxOf({TextWidth(items[i]) : i \in 1..Len(items)})]

\* faulty variant: the conversion is done in place on the object passed in
ArrayObjectInPlace == "list"

\* object the name input_data is bound to after `input_data = np.array(input_data)`:
\* a newly allocated array, the caller's list stays as it was
ArrayObject == "array"

\* the first `width` characters of s
Truncate(s, width) == IF Len(s) <= width THEN s ELSE SubSeq(s, 1, width)

\* arr[k] = x for a float x: its text, cut to the width, in a text array
AssignItem(arr, k, x) ==
    IF arr.dtype = "text"
    THEN [arr EXCEPT !.items[k] = Str(Truncate(FormatFloat(x), arr.width))]
    ELSE [arr EXCEPT !.items[k] = Num(x)]

\* float64 of one entry: <<v>>, or <<>> when it is no number
ItemValue(v) == IF v.t = "num" THEN <<v.n>> ELSE ParseNum(v.s)

\* conversion of an array to float64: <<row>>, or <<>> when an entry is no number
ArrayAsNumbers(arr) ==
    IF \E i \in 1..Len(arr.items) : ItemValue(arr.items[i]) = <<>> THEN <<>>
    ELSE <<[i \in 1..Len(arr.items) |-> ItemValue(arr.items[i])[1]]>>

AttributeMessage == "'numpy.float64' object has no attribute 'lower'"

(***************************************************************************)
(* application.py: module body and the /predict handler                    *)
(***************************************************************************)
Threads == {1, 2}

NoResponse == [status |-> 0, error |-> "", prediction |-> <<>>]

NotLoadedResponse ==
    [status |-> 503,
     error |-> "Model not loaded. Please ensure model file exists in artifacts/best_model.pkl",
     prediction |-> <<>>]

MissingFeaturesResponse ==
    [status |-> 400, error |-> "Missing required features in input data.",
     prediction |-> <<>>]

\* the handler's `except Exception as e`: jsonify({"error": str(e)}), 500
InternalErrorResponse(msg) == [status |-> 500, error |-> msg, prediction |-> <<>>]

PredictionResponse(p) == [status |-> 200, error |-> "", prediction |-> <<p>>]

\* faulty variant: the presence check skips RAM
AllRequiredPresentExceptRam(d) ==
    \A i \in 1..Len(RequiredFeatures) :
        RequiredFeatures[i] = "RAM" \/ RequiredFeatures[i] \in DOMAIN d

\* all(feature in data for feature in required_features)
AllRequiredPresent(d) ==
    \A i \in 1..Len(RequiredFeatures) : RequiredFeatures[i] \in DOMAIN d

\* the object the local name input_data of make_prediction refers to
Deref(t) == IF inputRef[t] = "list" THEN callerList[t] ELSE localArr[t]

NoArtifact == [run |-> 0, content |-> "none"]

NoFailure == [stage |-> "", error |-> ""]

\* no cleaning function is under test
CleanIdle ==
    /\ cleanIn = [amount |-> 1, prefix |-> "none", sep |-> "", token |-> "", enc |-> "utf-8"]
    /\ cleanUnit = ""
    /\ numericOut = <<>>
    /\ priceOut = <<>>

TrainIdle ==
    /\ dsExists = FALSE
    /\ dsDecodable = {}
    /\ dataset = <<>>
    /\ run = 0
    /\ tpc = "off"
    /\ encIdx = 1
    /\ tried = <<>>
    /\ df = <<>>
    /\ stages = <<>>
    /\ failure = NoFailure
    /\ fittedScaler = <<>>
    /\ fittedModel = <<>>
    /\ diskModel = NoArtifact
    /\ diskScaler = NoArtifact

ServeIdle ==
    /\ modelFile = "present"
    /\ scalerFile = "present"
    /\ scalerAcceptsText = TRUE
    /\ svc = "off"
    /\ selfModel = <<>>
    /\ selfScaler = <<>>
    /\ loadError = ""
    /\ MODEL_LOADED = FALSE
    /\ pc = [t \in Threads |-> "idle"]
    /\ data = [t \in Threads |-> <<>>]
    /\ callerList = [t \in Threads |-> NoObject]
    /\ localArr = [t \in Threads |-> NoObject]
    /\ inputRef = [t \in Threads |-> "list"]
    /\ processor = [t \in Threads |-> Str("")]
    /\ speed = [t \in Threads |-> <<>>]
    /\ scaled = [t \in Threads |-> <<>>]
    /\ mpResult = [t \in Threads |-> NoResult]
    /\ response = [t \in Threads |-> NoResponse]
    /\ scalerApplied = [t \in Threads |-> FALSE]
    /\ modelApplied = [t \in Threads |-> FALSE]

\* request bodies: complete records, records lacking fields, a numeric Processor
BaseRecord(w, p) ==
    ("Mobile Weight" :> Num(w)) @@ ("RAM" :> Num(800)) @@ ("Front Camera" :> Num(1600))
    @@ ("Back Camera" :> Num(4800)) @@ ("Processor" :> p)
    @@ ("Battery Capacity" :> Num(450000)) @@ ("Screen Size" :> Num(650))
    @@ ("Launched Year" :> Num(202300))

Without(d, S) == [f \in (DOMAIN d) \ S |-> d[f]]

Weights == {18000, 20350}
Processors == {Str("A17 Bionic"), Str("Unknown Chip X"), Str(""), Num(250)}
MissingSets == {{}, {"RAM"}, {"Processor", "Launched Year"}}

RequestData ==
    {Without(BaseRecord(w, p), S) : w \in Weights, p \in Processors, S \in MissingSets}

InitServe ==
    /\ name = ""
    /\ speedPred = <<>>
    /\ speedTrain = <<>>
    /\ CleanIdle
    /\ modelFile \in {"present", "missing", "corrupt"}
    /\ scalerFile \in {"present", "missing", "corrupt"}
    /\ scalerAcceptsText \in BOOLEAN
    /\ svc = "boot"
    /\ selfModel = <<>>
    /\ selfScaler = <<>>
    /\ loadError = ""
    /\ MODEL_LOADED = FALSE
    /\ pc = [t \in Threads |-> "idle"]
    /\ data = [t \in Threads |-> <<>>]
    /\ callerList = [t \in Threads |-> NoObject]
    /\ localArr = [t \in Threads |-> NoObject]
    /\ inputRef = [t \in Threads |-> "list"]
    /\ processor = [t \in Threads |-> Str("")]
    /\ speed = [t \in Threads |-> <<>>]
    /\ scaled = [t \in Threads |-> <<>>]
    /\ mpResult = [t \in Threads |-> NoResult]
    /\ response = [t \in Threads |-> NoResponse]
    /\ scalerApplied = [t \in Threads |-> FALSE]
    /\ modelApplied = [t \in Threads |-> FALSE]
    /\ TrainIdle

\* application.py module body: predictor = ModelPredictor(); MODEL_LOADED = True,
\* or MODEL_LOADED = False when the constructor raised
AppBoot ==
    /\ svc = "boot"
    /\ LET p == ModelPredictor_init(modelFile, scalerFile) IN
        /\ selfModel' = p.model
        /\ selfScaler' = p.scaler
        /\ loadError' = p.logged
        /\ MODEL_LOADED' = ~p.raised
    /\ svc' = "ready"
    /\ UNCHANGED <<resolverVars, cleanVars, trainVars, envVars, threadVars>>

\* a POST /predict arrives on thread t
Request(t) ==
    /\ svc = "ready"
    /\ pc[t] = "idle"
    /\ \E d \in RequestData : data' = [data EXCEPT ![t] = d]
    /\ pc' = [pc EXCEPT ![t] = "handler"]
    /\ response' = [response EXCEPT ![t] = NoResponse]
    /\ scalerApplied' = [scalerApplied EXCEPT ![t] = FALSE]
    /\ modelApplied' = [modelApplied EXCEPT ![t] = FALSE]
    /\ UNCHANGED <<resolverVars, cleanVars, trainVars, envVars, predictorVars, callerList, localArr, inputRef,
                   processor, speed, scaled, mpResult>>

\* predict(): loaded-flag check, required-fields check, extraction of input_data
Handler(t) ==
    /\ pc[t] = "handler"
    /\ IF ~MODEL_LOADED THEN
           /\ response' = [response EXCEPT ![t] = NotLoadedResponse]
           /\ pc' = [pc EXCEPT ![t] = "idle"]
           /\ UNCHANGED <<callerList, inputRef>>
       ELSE IF ~AllRequiredPresent(data[t]) THEN
           /\ response' = [response EXCEPT ![t] = MissingFeaturesResponse]
           /\ pc' = [pc EXCEPT ![t] = "idle"]
           /\ UNCHANGED <<callerList, inputRef>>
       ELSE IF \E i \in 1..Len(InputOrder) : InputOrder[i] \notin DOMAIN data[t] THEN
           \* data[...] raises KeyError, caught by the handler's except
           /\ response' = [response EXCEPT ![t] =
                  InternalErrorResponse("'" \o
                      InputOrder[CHOOSE i \in 1..Len(InputOrder) :
                          /\ InputOrder[i] \notin DOMAIN data[t]
                          /\ \A j \in 1..(i - 1) : InputOrder[j] \in DOMAIN data[t]]
                      \o "'")]
           /\ pc' = [pc EXCEPT ![t] = "idle"]
           /\ UNCHANGED <<callerList, inputRef>>
       ELSE
           /\ callerList' = [callerList EXCEPT ![t] =
                  ListObject([i \in 1..Len(InputOrder) |-> data[t][InputOrder[i]]])]
           /\ inputRef' = [inputRef EXCEPT ![t] = "list"]
           /\ pc' = [pc EXCEPT ![t] = "mp_check"]
           /\ UNCHANGED response
    /\ UNCHANGED <<resolverVars, cleanVars, trainVars, envVars, predictorVars, data, localArr, processor, speed,
                   scaled, mpResult, scalerApplied, modelApplied>>

\* make_prediction raises: the exception is wrapped and leaves the method
Raise(t, msg) ==
    /\ mpResult' = [mpResult EXCEPT ![t] = WrapPredictionError(msg)]
    /\ pc' = [pc EXCEPT ![t] = "respond"]

\* if self.model is None or self.scaler is None: raise CustomException(...)
MP_Check(t) ==
    /\ pc[t] = "mp_check"
    /\ IF ArtifactsAbsent(selfModel, selfScaler)
       THEN Raise(t, NotLoadedMessage)
       ELSE /\ pc' = [pc EXCEPT ![t] = "mp_array"]
            /\ UNCHANGED mpResult
    /\ UNCHANGED <<resolverVars, cleanVars, trainVars, envVars, predictorVars, data, callerList, localArr, inputRef,
                   processor, speed, scaled, response, scalerApplied, modelApplied>>

\* input_data = np.array(input_data)
MP_Array(t) ==
    /\ pc[t] = "mp_array"
    /\ IF ArrayObject = "array"
       THEN /\ localArr' = [localArr EXCEPT ![t] = np_array(Deref(t).items)]
            /\ UNCHANGED callerList
       ELSE /\ callerList' = [callerList EXCEPT ![t] = np_array(Deref(t).items)]
            /\ UNCHANGED localArr
    /\ inputRef' = [inputRef EXCEPT ![t] = ArrayObject]
    /\ pc' = [pc EXCEPT ![t] = "mp_resolve"]
    /\ UNCHANGED <<resolverVars, cleanVars, trainVars, envVars, predictorVars, data, processor, speed, scaled,
                   mpResult, response, scalerApplied, modelApplied>>

\* processor = input_data[4]; processor_speed = get_processor_speed(processor)
MP_Resolve(t) ==
    /\ pc[t] = "mp_resolve"
    /\ LET p == Deref(t).items[ProcessorIndex] IN
        /\ processor' = [processor EXCEPT ![t] = p]
        /\ IF p.t = "num"
           THEN /\ Raise(t, AttributeMessage)
                /\ UNCHANGED speed
           ELSE /\ speed' = [speed EXCEPT ![t] = <<get_processor_speed_prediction(p.s)>>]
                /\ pc' = [pc EXCEPT ![t] = "mp_assign"]
                /\ UNCHANGED mpResult
    /\ UNCHANGED <<resolverVars, cleanVars, trainVars, envVars, predictorVars, data, callerList, localArr, inputRef,
                   scaled, response, scalerApplied, modelApplied>>

\* input_data[4] = processor_speed
MP_Assign(t) ==
    /\ pc[t] = "mp_assign"
    /\ IF inputRef[t] = "list"
       THEN /\ callerList' = [callerList EXCEPT ![t] =
                   AssignItem(callerList[t], ProcessorIndex, speed[t][1])]
            /\ UNCHANGED localArr
       ELSE /\ localArr' = [localArr EXCEPT ![t] =
                   AssignItem(localArr[t], ProcessorIndex, speed[t][1])]
            /\ UNCHANGED callerList
    /\ pc' = [pc EXCEPT ![t] = "mp_transform"]
    /\ UNCHANGED <<resolverVars, cleanVars, trainVars, envVars, predictorVars, data, inputRef, processor, speed,
                   scaled, mpResult, response, scalerApplied, modelApplied>>

\* input_data.reshape(1, -1); input_scaled = self.scaler.transform(input_data)
MP_Transform(t) ==
    /\ pc[t] = "mp_transform"
    /\ scalerApplied' = [scalerApplied EXCEPT ![t] = selfScaler # <<>>]
    /\ IF selfScaler = <<>>
       THEN /\ Raise(t, "'NoneType' object has no attribute 'transform'")
            /\ UNCHANGED scaled
       ELSE IF Deref(t).dtype = "text" /\ ~scalerAcceptsText
       THEN /\ Raise(t, TextArrayMessage)
            /\ UNCHANGED scaled
       ELSE IF ArrayAsNumbers(Deref(t)) = <<>>
       THEN /\ Raise(t, NotNumberMessage)
            /\ UNCHANGED scaled
       ELSE /\ scaled' = [scaled EXCEPT ![t] =
                   <<ScalerTransform(selfScaler[1], ArrayAsNumbers(Deref(t))[1])>>]
            /\ pc' = [pc EXCEPT ![t] = "mp_predict"]
            /\ UNCHANGED mpResult
    /\ UNCHANGED <<resolverVars, cleanVars, trainVars, envVars, predictorVars, data, callerList, localArr, inputRef,
                   processor, speed, response, modelApplied>>

\* prediction = self.model.predict(input_scaled); return prediction
MP_Predict(t) ==
    /\ pc[t] = "mp_predict"
    /\ modelApplied' = [modelApplied EXCEPT ![t] = selfModel # <<>>]
    /\ IF selfModel = <<>>
       THEN Raise(t, "'NoneType' object has no attribute 'predict'")
       ELSE /\ mpResult' = [mpResult EXCEPT ![t] =
                   [kind |-> "ok", type |-> "", msg |-> "",
                    value |-> <<ModelPredict(selfModel[1], scaled[t][1])>>]]
            /\ pc' = [pc EXCEPT ![t] = "respond"]
    /\ UNCHANGED <<resolverVars, cleanVars, trainVars, envVars, predictorVars, data, callerList, localArr, inputRef,
                   processor, speed, scaled, response, scalerApplied>>

\* predict(): jsonify of the prediction, or of str(e) with status 500;
\* the locals of the finished call are dropped
Respond(t) ==
    /\ pc[t] = "respond"
    /\ response' = [response EXCEPT ![t] =
           IF mpResult[t].kind = "ok" THEN PredictionResponse(mpResult[t].value[1])
           ELSE InternalErrorResponse(mpResult[t].msg)]
    /\ pc' = [pc EXCEPT ![t] = "idle"]
    /\ callerList' = [callerList EXCEPT ![t] = NoObject]
    /\ localArr' = [localArr EXCEPT ![t] = NoObject]
    /\ inputRef' = [inputRef EXCEPT ![t] = "list"]
    /\ processor' = [processor EXCEPT ![t] = Str("")]
    /\ speed' = [speed EXCEPT ![t] = <<>>]
    /\ scaled' = [scaled EXCEPT ![t] = <<>>]
    /\ mpResult' = [mpResult EXCEPT ![t] = NoResult]
    /\ UNCHANGED <<resolverVars, cleanVars, trainVars, envVars, predictorVars, data, scalerApplied, modelApplied>>

NextServe ==
    \/ AppBoot
    \/ \E t \in Threads : Request(t)
    \/ \E t \in Threads : Handler(t)
    \/ \E t \in Threads : MP_Check(t)
    \/ \E t \in Threads : MP_Array(t)
    \/ \E t \in Threads : MP_Resolve(t)
    \/ \E t \in Threads : MP_Assign(t)
    \/ \E t \in Threads : MP_Transform(t)
    \/ \E t \in Threads : MP_Predict(t)
    \/ \E t \in Threads : Respond(t)

SpecServe == InitServe /\ [][NextServe]_vars

(***************************************************************************)
(* Training run: train_and_save_model, stage by stage                      *)
(***************************************************************************)
MaxRows == 2
MaxRuns == 2

\* a missing value (NaN) in a data frame cell
NaN == [t |-> "nan", n |-> 0, s |-> ""]

\* str.replace(old, new) without regex: every occurrence, left to right
RECURSIVE ReplaceFrom(_, _, _, _)
\* the characters of s from position i on, occurrences of old replaced
ReplaceFrom(s, i, old, new) ==
    IF i + Len(old) - 1 > Len(s) \/ Len(old) = 0 THEN SubSeq(s, i, Len(s))
    ELSE IF SubSeq(s, i, i + Len(old) - 1) = old
    THEN new \o ReplaceFrom(s, i + Len(old), old, new)
    ELSE SubSeq(s, i, i) \o ReplaceFrom(s, i + 1, old, new)

Replace(s, old, new) == ReplaceFrom(s, 1, old, new)

\* pd.to_numeric(text, errors='coerce')
to_numeric(s) == LET parsed == ParseNum(s) IN IF parsed = <<>> THEN NaN ELSE Num(parsed[1])

\* a column read by read_csv has text cells, so that .str exists, exactly when
\* some cell of it is text
HasStrAccessor(cells) == \E i \in 1..Len(cells) : cells[i].t = "str"

\* clean_numeric_column on one cell of a text column
clean_numeric_cell(v, unit) ==
    IF v.t # "str" THEN v
    ELSE LET joined   == IF unit = "" THEN v.s ELSE Replace(v.s, " " \o unit, unit)
             unitless == IF unit = "" THEN v.s ELSE Replace(joined, unit, "")
             plain    == Replace(unitless, ",", "")
         IN  to_numeric(plain)

\* Characters outside ASCII are written with one ASCII stand-in each, a
\* character that occurs in no other text of the model:
CharRupee    == "#"    \* U+20B9, the rupee sign
CharACirc    == "^"    \* U+00E2
CharLowQuote == "~"    \* U+201A
CharSuperOne == "!"    \* U+00B9
CharC1Break  == "@"    \* U+0082, a control character

\* the characters of the class r'[...,\s]' in clean_price: the file spells the
\* class with U+00E2, U+201A and U+00B9 (the rupee sign's utf-8 bytes read as
\* cp1252), a comma and whitespace; U+20B9 itself is not among them
PriceStripChars == <<CharACirc, CharLowQuote, CharSuperOne, ",", " ">>

RECURSIVE StripChars(_, _)
StripChars(s, chars) ==
    IF Len(chars) = 0 THEN s
    ELSE StripChars(Replace(s, Head(chars), ""), Tail(chars))

\* clean_price on one cell of a text column
clean_price_cell(v) ==
    IF v.t # "str" THEN v
    ELSE LET stripped == StripChars(v.s, PriceStripChars)
             bare     == Replace(stripped, "INR", "")
         IN  to_numeric(bare)

UnitColumns ==
    << <<"Mobile Weight", "g">>, <<"RAM", "GB">>, <<"Front Camera", "MP">>,
       <<"Back Camera", "MP">>, <<"Battery Capacity", "mAh">>,
       <<"Screen Size", "inches">> >>

PriceColumn == "Launched Price (India)"

CsvColumns ==
    {"Mobile Weight", "RAM", "Front Camera", "Back Camera", "Battery Capacity",
     "Screen Size", "Processor", "Launched Year", PriceColumn}

\* the encodings read_csv is tried with, outermost try first
Encodings == <<"utf-8", "latin1", "cp1252">>

\* faulty variant: every exception of a read moves on to the next encoding
RetriesOnAnyError(err) == TRUE

\* `except UnicodeDecodeError`
RetriesOn(err) == err = "UnicodeDecodeError"

\* faulty variant: the model is written before it is fitted
StageOrderSaveFirst ==
    <<"makedirs", "load", "clean", "resolve", "price", "dropna", "fit_scaler",
      "save_model", "fit_model", "save_scaler">>

\* the statements of train_and_save_model, top to bottom
StageOrder ==
    <<"makedirs", "load", "clean", "resolve", "price", "dropna", "fit_scaler",
      "fit_model", "save_model", "save_scaler">>

\* the stage after `stage`, "done" after the last
NextStage(stage) ==
    LET i == CHOOSE k \in 1..Len(StageOrder) : StageOrder[k] = stage IN
    IF i = Len(StageOrder) THEN "done" ELSE StageOrder[i + 1]

(***************************************************************************)
(* The dataset file: rows of raw text cells, "" for an empty cell          *)
(***************************************************************************)
GoodRow ==
    ("Mobile Weight" :> "180 g") @@ ("RAM" :> "8 GB") @@ ("Front Camera" :> "12MP")
    @@ ("Back Camera" :> "48 MP") @@ ("Battery Capacity" :> "4,500 mAh")
    @@ ("Screen Size" :> "6.5 inches") @@ ("Processor" :> "A17 Bionic")
    @@ ("Launched Year" :> "2023") @@ (PriceColumn :> "INR 79,999")

RowKinds ==
    {"good", "unknown_processor", "bad_weight", "nan_weight", "bad_price",
     "nan_processor", "bad_year", "nan_year"}

RawRow(kind) ==
    CASE kind = "good"              -> GoodRow
      [] kind = "unknown_processor" -> [GoodRow EXCEPT !["Processor"] = "Unisoc T606"]
      [] kind = "bad_weight"        -> [GoodRow EXCEPT !["Mobile Weight"] = "unknown"]
      [] kind = "nan_weight"        -> [GoodRow EXCEPT !["Mobile Weight"] = ""]
      [] kind = "bad_price"         -> [GoodRow EXCEPT ![PriceColumn] = "TBA"]
      [] kind = "nan_processor"     -> [GoodRow EXCEPT !["Processor"] = ""]
      [] kind = "bad_year"          -> [GoodRow EXCEPT !["Launched Year"] = "20x3"]
      [] kind = "nan_year"          -> [GoodRow EXCEPT !["Launched Year"] = ""]

Datasets == UNION {[1..n -> RowKinds] : n \in 1..MaxRows}

\* pd.read_csv: a column whose non-empty cells are all numbers becomes numeric,
\* any other column keeps its text; an empty cell is NaN
read_csv(kinds) ==
    LET raw == [i \in 1..Len(kinds) |-> RawRow(kinds[i])]
        numeric == [c \in CsvColumns |->
                       \A i \in 1..Len(kinds) : raw[i][c] = "" \/ ParseNum(raw[i][c]) # <<>>]
    IN  [i \in 1..Len(kinds) |->
            [id |-> i,
             cells |-> [c \in CsvColumns \cup {"Processor_Speed"} |->
                           IF c = "Processor_Speed" THEN NaN
                           ELSE IF raw[i][c] = "" THEN NaN
                           ELSE IF numeric[c] THEN Num(ParseNum(raw[i][c])[1])
                           ELSE Str(raw[i][c])]]]

Column(frame, c) == [i \in 1..Len(frame) |-> frame[i].cells[c]]

\* the unit removed from a column by its clean_numeric_column call
UnitOf(c) == UnitColumns[CHOOSE k \in 1..Len(UnitColumns) : UnitColumns[k][1] = c][2]

\* lines 151-156: the six clean_numeric_column calls; each reads and writes its
\* own column only, so the frame after the six is the frame with each of these
\* columns cleaned; <<>> when one of them has no .str accessor (AttributeError)
CleanColumns(frame) ==
    IF Len(frame) > 0 /\ \E k \in 1..Len(UnitColumns) :
                            ~HasStrAccessor(Column(frame, UnitColumns[k][1]))
    THEN <<>>
    ELSE <<[i \in 1..Len(frame) |->
              [id |-> frame[i].id,
               cells |-> [c \in DOMAIN frame[i].cells |->
                             IF \E k \in 1..Len(UnitColumns) : UnitColumns[k][1] = c
                             THEN clean_numeric_cell(frame[i].cells[c], UnitOf(c))
                             ELSE frame[i].cells[c]]]]>>

\* df.dropna(subset=features + [price])
dropna(frame) ==
    SelectSeq(frame,
        LAMBDA r : \A c \in {FeatureColumns[i] : i \in 1..Len(FeatureColumns)}
                               \cup {PriceColumn} : r.cells[c].t # "nan")

\* conversion of the feature matrix to float64: <<matrix>>, or <<>> (ValueError)
FeatureMatrix(frame) ==
    IF \E i \in 1..Len(frame) : \E k \in 1..Len(FeatureColumns) :
           ItemValue(frame[i].cells[FeatureColumns[k]]) = <<>>
    THEN <<>>
    ELSE <<[i \in 1..Len(frame) |->
              [k \in 1..Len(FeatureColumns) |->
                  ItemValue(frame[i].cells[FeatureColumns[k]])[1]]]>>

RECURSIVE SumSeq(_)
SumSeq(q) == IF Len(q) = 0 THEN 0 ELSE Head(q) + SumSeq(Tail(q))

\* StandardScaler().fit on a matrix with at least one row
FitScaler(X) ==
    [mean  |-> [k \in 1..Len(FeatureColumns) |->
                   SumSeq([i \in 1..Len(X) |-> X[i][k]]) \div Len(X)],
     scale |-> [k \in 1..Len(FeatureColumns) |-> 100]]

\* RandomForestRegressor(...).fit on the scaled rows and the prices
FitModel(Xs, y) ==
    [low |-> SumSeq(y) \div Len(y), mid |-> SumSeq(y) \div Len(y),
     high |-> SumSeq(y) \div Len(y)]

\* the encodings the dataset file decodes under.  CPython's latin1 codec accepts
\* every byte; the sets without latin1 stand for a codec that does not, and keep
\* the third try and the final give-up of lines 143-146 within reach
DecodableSets == {{"utf-8", "latin1", "cp1252"}, {"latin1", "cp1252"}, {"cp1252"}, {}}

InitTrain ==
    /\ name = ""
    /\ speedPred = <<>>
    /\ speedTrain = <<>>
    /\ CleanIdle
    /\ ServeIdle
    /\ dsExists \in BOOLEAN
    /\ dsDecodable \in DecodableSets
    /\ dsExists = FALSE => dsDecodable = {}
    /\ dataset \in Datasets
    /\ run = 1
    /\ tpc = StageOrder[1]
    /\ encIdx = 1
    /\ tried = <<>>
    /\ df = <<>>
    /\ stages = <<>>
    /\ failure = NoFailure
    /\ fittedScaler = <<>>
    /\ fittedModel = <<>>
    /\ diskModel = NoArtifact
    /\ diskScaler = NoArtifact

\* the stage ran to its end
Completed(stage) ==
    /\ stages' = Append(stages, stage)
    /\ tpc' = NextStage(stage)
    /\ UNCHANGED failure

\* an exception reaches the outer except of train_and_save_model: logged, re-raised
Abort(stage, err) ==
    /\ tpc' = "aborted"
    /\ failure' = [stage |-> stage, error |-> err]
    /\ UNCHANGED stages

\* os.makedirs("artifacts", exist_ok=True)
T_Makedirs ==
    /\ tpc = "makedirs"
    /\ Completed("makedirs")
    /\ UNCHANGED <<resolverVars, cleanVars, serveVars, dsExists, dsDecodable, dataset, run, encIdx,
                   tried, df, fittedScaler, fittedModel, diskModel, diskScaler>>

\* one pd.read_csv(data_path, encoding=Encodings[encIdx]) and its except clause
T_Load ==
    /\ tpc = "load"
    /\ tried' = Append(tried, Encodings[encIdx])
    /\ LET err == IF ~dsExists THEN "FileNotFoundError"
                  ELSE IF Encodings[encIdx] \notin dsDecodable THEN "UnicodeDecodeError"
                  ELSE ""
       IN  IF err = "" THEN
               /\ df' = read_csv(dataset)
               /\ Completed("load")
               /\ UNCHANGED encIdx
           ELSE IF RetriesOn(err) /\ encIdx < Len(Encodings) THEN
               /\ encIdx' = encIdx + 1
               /\ UNCHANGED <<df, tpc, stages, failure>>
           ELSE
               /\ Abort("load", err)
               /\ UNCHANGED <<df, encIdx>>
    /\ UNCHANGED <<resolverVars, cleanVars, serveVars, dsExists, dsDecodable, dataset, run,
                   fittedScaler, fittedModel, diskModel, diskScaler>>

\* the six clean_numeric_column calls
T_Clean ==
    /\ tpc = "clean"
    /\ LET cleaned == CleanColumns(df) IN
       IF cleaned = <<>>
       THEN /\ Abort("clean", "AttributeError")
            /\ UNCHANGED df
       ELSE /\ df' = cleaned[1]
            /\ Completed("clean")
    /\ UNCHANGED <<resolverVars, cleanVars, serveVars, dsExists, dsDecodable, dataset, run, encIdx,
                   tried, fittedScaler, fittedModel, diskModel, diskScaler>>

\* df["Processor_Speed"] = df["Processor"].apply(get_processor_speed)
T_Resolve ==
    /\ tpc = "resolve"
    /\ IF \E i \in 1..Len(df) : df[i].cells["Processor"].t # "str"
       THEN /\ Abort("resolve", "AttributeError")
            /\ UNCHANGED df
       ELSE /\ df' = [i \in 1..Len(df) |->
                        [df[i] EXCEPT !.cells["Processor_Speed"] =
                            Num(get_processor_speed_training(df[i].cells["Processor"].s))]]
            /\ Completed("resolve")
    /\ UNCHANGED <<resolverVars, cleanVars, serveVars, dsExists, dsDecodable, dataset, run, encIdx,
                   tried, fittedScaler, fittedModel, diskModel, diskScaler>>

\* df[price] = clean_price(df[price])
T_Price ==
    /\ tpc = "price"
    /\ IF Len(df) > 0 /\ ~HasStrAccessor(Column(df, PriceColumn))
       THEN /\ Abort("price", "AttributeError")
            /\ UNCHANGED df
       ELSE /\ df' = [i \in 1..Len(df) |->
                        [df[i] EXCEPT !.cells[PriceColumn] = clean_price_cell(@)]]
            /\ Completed("price")
    /\ UNCHANGED <<resolverVars, cleanVars, serveVars, dsExists, dsDecodable, dataset, run, encIdx,
                   tried, fittedScaler, fittedModel, diskModel, diskScaler>>

\* df = df.dropna(subset=features + [price])
T_Dropna ==
    /\ tpc = "dropna"
    /\ df' = dropna(df)
    /\ Completed("dropna")
    /\ UNCHANGED <<resolverVars, cleanVars, serveVars, dsExists, dsDecodable, dataset, run, encIdx,
                   tried, fittedScaler, fittedModel, diskModel, diskScaler>>

\* scaler = StandardScaler(); X_scaled = scaler.fit_transform(X)
T_FitScaler ==
    /\ tpc = "fit_scaler"
    /\ LET X == FeatureMatrix(df) IN
       IF Len(df) = 0 \/ X = <<>>
       THEN /\ Abort("fit_scaler", "ValueError")
            /\ UNCHANGED fittedScaler
       ELSE /\ fittedScaler' = <<FitScaler(X[1])>>
            /\ Completed("fit_scaler")
    /\ UNCHANGED <<resolverVars, cleanVars, serveVars, dsExists, dsDecodable, dataset, run, encIdx,
                   tried, df, fittedModel, diskModel, diskScaler>>

\* model = RandomForestRegressor(...); model.fit(X_scaled, y)
T_FitModel ==
    /\ tpc = "fit_model"
    /\ LET X == FeatureMatrix(df)[1] IN
       fittedModel' =
           <<FitModel([i \in 1..Len(df) |-> ScalerTransform(fittedScaler[1], X[i])],
                      [i \in 1..Len(df) |-> df[i].cells[PriceColumn].n])>>
    /\ Completed("fit_model")
    /\ UNCHANGED <<resolverVars, cleanVars, serveVars, dsExists, dsDecodable, dataset, run, encIdx,
                   tried, df, fittedScaler, diskModel, diskScaler>>

\* with open(path, "wb") as f: pickle.dump(obj, f): the open may fail (file as it
\* was), the dump may fail after the open truncated the file, or both succeed
WriteOutcomes == {"ok", "open_fails", "dump_fails"}

\* with open(model_path, "wb") as f: pickle.dump(model, f)
T_SaveModel ==
    /\ tpc = "save_model"
    /\ \E o \in WriteOutcomes :
        IF o = "ok" THEN
            /\ diskModel' = [run |-> run, content |-> "complete"]
            /\ Completed("save_model")
        ELSE IF o = "open_fails" THEN
            /\ Abort("save_model", "OSError")
            /\ UNCHANGED diskModel
        ELSE
            /\ diskModel' = [run |-> run, content |-> "partial"]
            /\ Abort("save_model", "OSError")
    /\ UNCHANGED <<resolverVars, cleanVars, serveVars, dsExists, dsDecodable, dataset, run, encIdx,
                   tried, df, fittedScaler, fittedModel, diskScaler>>

\* with open(scaler_path, "wb") as f: pickle.dump(scaler, f)
T_SaveScaler ==
    /\ tpc = "save_scaler"
    /\ \E o \in WriteOutcomes :
        IF o = "ok" THEN
            /\ diskScaler' = [run |-> run, content |-> "complete"]
            /\ Completed("save_scaler")
        ELSE IF o = "open_fails" THEN
            /\ Abort("save_scaler", "OSError")
            /\ UNCHANGED diskScaler
        ELSE
            /\ diskScaler' = [run |-> run, content |-> "partial"]
            /\ Abort("save_scaler", "OSError")
    /\ UNCHANGED <<resolverVars, cleanVars, serveVars, dsExists, dsDecodable, dataset, run, encIdx,
                   tried, df, fittedScaler, fittedModel, diskModel>>

\* the batch job is started again (python training_pipeline.py)
T_NextRun ==
    /\ tpc \in {"done", "aborted"}
    /\ run < MaxRuns
    /\ run' = run + 1
    /\ tpc' = StageOrder[1]
    /\ encIdx' = 1
    /\ tried' = <<>>
    /\ df' = <<>>
    /\ stages' = <<>>
    /\ failure' = NoFailure
    /\ fittedScaler' = <<>>
    /\ fittedModel' = <<>>
    /\ UNCHANGED <<resolverVars, cleanVars, serveVars, dsExists, dsDecodable, dataset, diskModel,
                   diskScaler>>

NextTrain ==
    \/ T_Makedirs
    \/ T_Load
    \/ T_Clean
    \/ T_Resolve
    \/ T_Price
    \/ T_Dropna
    \/ T_FitScaler
    \/ T_FitModel
    \/ T_SaveModel
    \/ T_SaveScaler
    \/ T_NextRun

SpecTrain == InitTrain /\ [][NextTrain]_vars

\* what open(path, "rb") and pickle.load make of a file on disk: no file is
\* missing, a file cut short by a failed dump is corrupt
DiskOutcome(file) ==
    CASE file.content = "none"     -> "missing"
      [] file.content = "partial"  -> "corrupt"
      [] file.content = "complete" -> "present"

\* a ModelPredictor constructed from the artifacts directory as it is now
PredictorFromDisk == ModelPredictor_init(DiskOutcome(diskModel), DiskOutcome(diskScaler))

(***************************************************************************)
(* Field cleaning on its own: clean_numeric_column and clean_price applied *)
(* to one cell of a text column                                            *)
(***************************************************************************)
\* the digits of a cell and the number they spell (<<>>: they spell none)
Amounts ==
    << [text |-> "180",      value |-> <<18000>>],
       [text |-> "1,200",    value |-> <<120000>>],
       [text |-> "6.5",      value |-> <<650>>],
       [text |-> "1,20,000", value |-> <<12000000>>],
       [text |-> "unknown",  value |-> <<>>],
       [text |-> "",         value |-> <<>>] >>

\* the rupee sign's bytes E2 82 B9 as the characters read_csv hands over
DecodeRupee(enc) ==
    CASE enc = "utf-8"  -> CharRupee
      [] enc = "latin1" -> CharACirc \o CharC1Break \o CharSuperOne
      [] enc = "cp1252" -> CharACirc \o CharLowQuote \o CharSuperOne

PrefixKinds == {"none", "INR", "INR_space", "rupee", "rupee_space"}

PrefixText(kind, enc) ==
    CASE kind = "none"        -> ""
      [] kind = "INR"         -> "INR"
      [] kind = "INR_space"   -> "INR "
      [] kind = "rupee"       -> DecodeRupee(enc)
      [] kind = "rupee_space" -> DecodeRupee(enc) \o " "

UnitTokens == {"", "g", "GB", "mAh"}

\* the cell as text: currency prefix, digits, optional space, unit token
CellText(in) ==
    PrefixText(in.prefix, in.enc) \o Amounts[in.amount].text \o in.sep \o in.token

\* the cells tried; a cell without unit token has no trailing space, and an
\* empty cell is no text
CleanInputs ==
    {in \in [amount : 1..Len(Amounts), prefix : PrefixKinds, sep : {"", " "},
             token : UnitTokens, enc : {Encodings[i] : i \in 1..Len(Encodings)}] :
        /\ in.token = "" => in.sep = ""
        /\ in.prefix \notin {"rupee", "rupee_space"} => in.enc = "utf-8"
        /\ CellText(in) # ""}

InitClean ==
    /\ name = ""
    /\ speedPred = <<>>
    /\ speedTrain = <<>>
    /\ ServeIdle
    /\ TrainIdle
    /\ cleanIn \in CleanInputs
    /\ cleanUnit \in UnitTokens
    /\ numericOut = <<>>
    /\ priceOut = <<>>

\* clean_numeric_column(series, unit) on the cell
CleanNumeric ==
    /\ numericOut = <<>>
    /\ numericOut' = <<clean_numeric_cell(Str(CellText(cleanIn)), cleanUnit)>>
    /\ UNCHANGED <<resolverVars, serveVars, trainVars, cleanIn, cleanUnit, priceOut>>

\* clean_price(price_series) on the cell
CleanPrice ==
    /\ priceOut = <<>>
    /\ priceOut' = <<clean_price_cell(Str(CellText(cleanIn)))>>
    /\ UNCHANGED <<resolverVars, serveVars, trainVars, cleanIn, cleanUnit, numericOut>>

NextClean == CleanNumeric \/ CleanPrice

SpecClean == InitClean /\ [][NextClean]_vars

(***************************************************************************)
(* Resolver specification: the name is drawn from a bounded set that holds *)
(* every key verbatim and lower-cased, embedded in longer text, names that *)
(* match several keys, near misses, unknown names and the empty string.    *)
(***************************************************************************)
NamePrefixes == {"", "Apple ", "x"}
NameSuffixes == {"", " 5G"}

TableKeys == {ProcessorSpeedsPrediction[i][1] : i \in 1..Len(ProcessorSpeedsPrediction)}

EmbeddedNames ==
    {p \o k \o s : p \in NamePrefixes, k \in TableKeys \cup {Lower(k) : k \in TableKeys},
                   s \in NameSuffixes}

SpecialNames ==
    { "", "Unknown Chip X", "Apple A17 Bionic Chip", "A17 PRO MAX",
      "GOOGLE TENSOR G3", "google tensor g4", "Google Tensor G2 / A11 Bionic",
      "Snapdragon 8 Gen 1 or A11 Bionic", "Exynos 2200 / Snapdragon 8 Gen 3",
      "Snapdragon 8 Gen", "Snapdragon 8+ Gen 1 (4 nm)", "Dimensity 9300",
      "Exynos2400", "EXYNOS 2400", "A17", "Bionic", "2.5" }

ProcessorNames == EmbeddedNames \cup SpecialNames

InitResolver ==
    /\ name \in ProcessorNames
    /\ speedPred = <<>>
    /\ speedTrain = <<>>
    /\ CleanIdle
    /\ ServeIdle
    /\ TrainIdle

ResolvePrediction ==
    /\ speedPred = <<>>
    /\ speedPred' = <<get_processor_speed_prediction(name)>>
    /\ UNCHANGED <<name, speedTrain, cleanVars, serveVars, trainVars>>

ResolveTraining ==
    /\ speedTrain = <<>>
    /\ speedTrain' = <<get_processor_speed_training(name)>>
    /\ UNCHANGED <<name, speedPred, cleanVars, serveVars, trainVars>>

NextResolver == ResolvePrediction \/ ResolveTraining

SpecResolver == InitResolver /\ [][NextResolver]_vars

(***************************************************************************)
(* C1: for every name, get_processor_speed returns the value of the first  *)
(* table entry, in definition order, whose key is a case-insensitive       *)
(* substring of the name, and 2.0 when no key is one (both copies).        *)
(***************************************************************************)
MatchingEntries(table, n) ==
    {i \in 1..Len(table) : Contains(Lower(table[i][1]), Lower(n))}

FirstMatchValue(table, n) ==
    IF MatchingEntries(table, n) = {} THEN 200
    ELSE table[CHOOSE i \in MatchingEntries(table, n) :
                   \A j \in MatchingEntries(table, n) : i <= j][2]

C1_FirstMatchOrDefault ==
    /\ speedPred # <<>> => speedPred = <<FirstMatchValue(ProcessorSpeedsPrediction, name)>>
    /\ speedTrain # <<>> => speedTrain = <<FirstMatchValue(ProcessorSpeedsTraining, name)>>

\* a name matching two keys with different values has been resolved
C1_Witness ==
    /\ name = "GOOGLE TENSOR G3"
    /\ Cardinality(MatchingEntries(ProcessorSpeedsPrediction, name)) = 2
    /\ speedPred = <<291>>
    /\ speedTrain = <<291>>

(***************************************************************************)
(* C2: the training and the prediction table have the same keys, values    *)
(* and order, and the two resolvers return the same value for every name.  *)
(***************************************************************************)
C2_ResolversEquivalent ==
    /\ ProcessorSpeedsTraining = ProcessorSpeedsPrediction
    /\ (speedPred # <<>> /\ speedTrain # <<>>) => speedPred = speedTrain

C2_Witness ==
    /\ name = "Apple google tensor g2 5G"
    /\ speedPred = <<285>>
    /\ speedTrain = <<285>>

(***************************************************************************)
(* C3: the vector handed to the scaler has exactly 8 entries in the order  *)
(* weight, ram, front camera, back camera, processor speed, battery,       *)
(* screen size, launch year, the order of the training feature columns;    *)
(* entry 4 (counted from 0) is the resolved speed of the processor text    *)
(* and the other seven carry the request's numbers unchanged.              *)
(***************************************************************************)
C3_Order ==
    <<"Mobile Weight", "RAM", "Front Camera", "Back Camera", "Processor",
      "Battery Capacity", "Screen Size", "Launched Year">>

C3_ExpectedSpeed(p) ==
    CASE p = "A17 Bionic" -> 378 [] p = "Unknown Chip X" -> 200 [] p = "" -> 200

C3_FeatureVectorContract ==
    /\ Len(FeatureColumns) = 8
    /\ \A i \in 1..8 :
           FeatureColumns[i] = (IF i = 5 THEN "Processor_Speed" ELSE C3_Order[i])
    /\ \A t \in Threads : pc[t] = "mp_transform" =>
           /\ Len(Deref(t).items) = 8
           /\ \A i \in (1..8) \ {5} :
                  ItemValue(Deref(t).items[i]) = <<data[t][C3_Order[i]].n>>
           /\ ItemValue(Deref(t).items[5]) = <<C3_ExpectedSpeed(data[t]["Processor"].s)>>

C3_Witness ==
    \E t \in Threads :
        /\ pc[t] = "mp_transform"
        /\ data[t]["Processor"] = Str("A17 Bionic")
        /\ Deref(t).items[5] = Str("3.78")
        /\ Deref(t).items[1] = Str("203.5")
        /\ Deref(t).items[8] = Str("2023")

(***************************************************************************)
(* C4: when the model or the scaler artifact failed to load, every         *)
(* make_prediction call ends in the model-not-loaded error: never a        *)
(* prediction value, never another error, scaler and model never applied.  *)
(***************************************************************************)
C4_NotLoadedError ==
    \A t \in Threads :
        (pc[t] = "respond" /\ (modelFile # "present" \/ scalerFile # "present")) =>
            /\ mpResult[t].kind = "error"
            /\ mpResult[t].type = "CustomException"
            /\ mpResult[t].msg =
                   "Error in making prediction: "
                   \o "Model or scaler not loaded. Please ensure both files exist."
            /\ mpResult[t].value = <<>>
            /\ ~scalerApplied[t]
            /\ ~modelApplied[t]

\* the model file loaded, the scaler file is corrupt, and a call has ended
C4_Witness ==
    \E t \in Threads :
        /\ pc[t] = "respond"
        /\ modelFile = "present"
        /\ scalerFile = "corrupt"
        /\ mpResult[t].kind = "error"

(***************************************************************************)
(* C5: when artifact loading fails at service start, the loaded-flag       *)
(* records it and every /predict request is answered with the              *)
(* model-not-loaded error, not with missing-fields, internal-error or a    *)
(* prediction.                                                             *)
(***************************************************************************)
C5_DegradedModeRejects ==
    (svc = "ready" /\ (modelFile # "present" \/ scalerFile # "present")) =>
        /\ MODEL_LOADED = FALSE
        /\ \A t \in Threads : response[t].status \in {0, 503}

(***************************************************************************)
(* C6: a record lacking one of the eight required fields is rejected with  *)
(* a validation error that names the missing fields, before the vector is  *)
(* built, so that neither the scaler nor the model is applied to it.       *)
(***************************************************************************)
C6_Fields ==
    {"Mobile Weight", "RAM", "Front Camera", "Back Camera", "Processor",
     "Battery Capacity", "Screen Size", "Launched Year"}

C6_MissingOf(d) == C6_Fields \ DOMAIN d

\* the claim as stated: the error names every missing field
C6_NamesMissingFields ==
    \A t \in Threads :
        (pc[t] = "idle" /\ response[t].status # 0 /\ C6_MissingOf(data[t]) # {}) =>
            /\ response[t].status = 400
            /\ \A f \in C6_MissingOf(data[t]) : Contains(f, response[t].error)
            /\ ~scalerApplied[t]
            /\ ~modelApplied[t]

\* as amended: the rejection is the fixed missing-features error (or the
\* not-loaded response when the loaded-flag is unset), the vector is never built
C6_MissingFieldsRejected ==
    \A t \in Threads :
        (svc = "ready" /\ C6_MissingOf(data[t]) # {}) =>
            /\ pc[t] \in {"idle", "handler"}
            /\ callerList[t] = NoObject
            /\ localArr[t] = NoObject
            /\ ~scalerApplied[t]
            /\ ~modelApplied[t]
            /\ (pc[t] = "idle" /\ response[t].status # 0) =>
                   response[t] = (IF MODEL_LOADED
                                  THEN [status |-> 400,
                                        error |-> "Missing required features in input data.",
                                        prediction |-> <<>>]
                                  ELSE NotLoadedResponse)

\* a record without RAM has been answered
C6_Witness ==
    \E t \in Threads :
        /\ pc[t] = "idle"
        /\ C6_MissingOf(data[t]) = {"RAM"}
        /\ response[t].status = 400

(***************************************************************************)
(* C7: a malformed or missing field value in some rows (any feature        *)
(* column, Processor included, or the price) never aborts the run: exactly *)
(* the rows with an unparsable feature or target are left out, the others  *)
(* are kept, and the run goes on to fit and persist.  Stated for datasets  *)
(* whose first row is well-formed.                                         *)
(***************************************************************************)
C7_WellFormedKinds == {"good", "unknown_processor"}

C7_MalformedRowsDropped ==
    (tpc # "off" /\ dataset[1] = "good") =>
        /\ tpc = "aborted" => failure.stage \in {"load", "save_model", "save_scaler"}
        /\ Len(stages) >= 6 =>
               {df[i].id : i \in 1..Len(df)}
                   = {i \in 1..Len(dataset) : dataset[i] \in C7_WellFormedKinds}

(***************************************************************************)
(* C8: a run executes its stages once each in one fixed order: rows with a *)
(* not-available marker are dropped before the scaler is fitted, the       *)
(* scaler is fitted before the model, artifacts are written only after     *)
(* both fits, and a failure before persistence leaves neither artifact     *)
(* file written by that run.                                               *)
(***************************************************************************)
C8_Order ==
    <<"makedirs", "load", "clean", "resolve", "price", "dropna", "fit_scaler",
      "fit_model", "save_model", "save_scaler">>

C8_Done(stage) == \E i \in 1..Len(stages) : stages[i] = stage

C8_LinearStages ==
    tpc # "off" =>
        /\ Len(stages) <= Len(C8_Order)
        /\ \A i \in 1..Len(stages) : stages[i] = C8_Order[i]
        /\ tpc \notin {"done", "aborted"} => tpc = C8_Order[Len(stages) + 1]
        /\ tpc = "done" => stages = C8_Order
        /\ tpc = "aborted" => failure.stage = C8_Order[Len(stages) + 1]
        /\ fittedScaler # <<>> =>
               /\ C8_Done("dropna")
               /\ \A i \in 1..Len(df) : \A c \in DOMAIN df[i].cells : df[i].cells[c].t # "nan"
        /\ fittedModel # <<>> => fittedScaler # <<>>
        /\ (diskModel.run = run \/ diskScaler.run = run) =>
               fittedScaler # <<>> /\ fittedModel # <<>>
        /\ diskScaler.run = run => diskModel = [run |-> run, content |-> "complete"]
        /\ (tpc = "aborted" /\ failure.stage \notin {"save_model", "save_scaler"}) =>
               diskModel.run # run /\ diskScaler.run # run

\* a run went through its first six stages in order, kept a row after dropna,
\* failed at the scaler fit and wrote neither file
C8_Witness ==
    /\ tpc = "aborted"
    /\ failure.stage = "fit_scaler"
    /\ stages = <<"makedirs", "load", "clean", "resolve", "price", "dropna">>
    /\ Len(df) > 0
    /\ diskModel = NoArtifact
    /\ diskScaler = NoArtifact

(***************************************************************************)
(* C9: the dataset is read with utf-8, latin1, cp1252 in that order, a     *)
(* later encoding only after the previous one failed to decode; the run    *)
(* gives up on decoding only after all three failed; a failure that is no  *)
(* decoding failure (missing file) aborts at once.                         *)
(***************************************************************************)
C9_Sequence == <<"utf-8", "latin1", "cp1252">>

C9_EncodingProbe ==
    tpc # "off" =>
        /\ Len(tried) <= 3
        /\ \A i \in 1..Len(tried) : tried[i] = C9_Sequence[i]
        /\ \A i \in 2..Len(tried) : dsExists /\ tried[i - 1] \notin dsDecodable
        /\ (tpc = "aborted" /\ failure.stage = "load") =>
               \/ /\ failure.error = "UnicodeDecodeError"
                  /\ tried = C9_Sequence
                  /\ dsExists
                  /\ dsDecodable = {}
               \/ /\ failure.error = "FileNotFoundError"
                  /\ ~dsExists
                  /\ tried = <<"utf-8">>
        /\ C8_Done("load") => dsExists /\ tried[Len(tried)] \in dsDecodable
        /\ (tpc = "load" /\ Len(tried) > 0) => tried[Len(tried)] \notin dsDecodable

\* utf-8 failed to decode, latin1 was tried next and read the file
C9_Witness ==
    /\ tried = <<"utf-8", "latin1">>
    /\ "utf-8" \notin dsDecodable
    /\ C8_Done("load")
    /\ Len(df) > 0

(***************************************************************************)
(* C10: under every interleaving of make_prediction calls on one           *)
(* predictor, the loaded model and scaler and each caller's input are      *)
(* never modified, and each call returns what its input yields alone.      *)
(***************************************************************************)
\* make_prediction run from start to end on its own
C10_Alone(items) ==
    LET loaded == ModelPredictor_init(modelFile, scalerFile)
        arr    == np_array(items)
        p      == arr.items[5]
        vec    == AssignItem(arr, 5, get_processor_speed_prediction(p.s))
        row    == ArrayAsNumbers(vec)
    IN  IF loaded.model = <<>> \/ loaded.scaler = <<>>
        THEN WrapPredictionError(NotLoadedMessage)
        ELSE IF p.t = "num" THEN WrapPredictionError(AttributeMessage)
        ELSE IF vec.dtype = "text" /\ ~scalerAcceptsText
        THEN WrapPredictionError(TextArrayMessage)
        ELSE IF row = <<>> THEN WrapPredictionError(NotNumberMessage)
        ELSE [kind |-> "ok", type |-> "", msg |-> "",
              value |-> <<ModelPredict(loaded.model[1],
                                       ScalerTransform(loaded.scaler[1], row[1]))>>]

C10_InCall == {"mp_check", "mp_array", "mp_resolve", "mp_assign", "mp_transform",
               "mp_predict", "respond"}

C10_CallsIndependent ==
    /\ svc = "ready" =>
           /\ selfModel = ModelPredictor_init(modelFile, scalerFile).model
           /\ selfScaler = ModelPredictor_init(modelFile, scalerFile).scaler
    /\ \A t \in Threads : pc[t] \in C10_InCall =>
           callerList[t] = ListObject([i \in 1..8 |-> data[t][InputOrder[i]]])
    /\ \A t \in Threads : pc[t] = "respond" =>
           mpResult[t] = C10_Alone([i \in 1..8 |-> data[t][InputOrder[i]]])

\* one call has returned a prediction while another, on a different input, is
\* between its array assignment and the scaler
C10_Witness ==
    \E t \in Threads : \E u \in Threads \ {t} :
        /\ pc[t] = "respond"
        /\ mpResult[t].kind = "ok"
        /\ pc[u] \in {"mp_assign", "mp_transform"}
        /\ data[t]["Mobile Weight"] # data[u]["Mobile Weight"]
        /\ data[t]["Processor"] # data[u]["Processor"]

(***************************************************************************)
(* C11: clean_numeric_column removes the given unit token, with or without *)
(* a space before it, and the commas, and parses the rest ("180 g" with    *)
(* unit g gives 180.0); clean_price removes the rupee sign, commas,        *)
(* whitespace and the INR prefix and parses the rest (rupee sign followed  *)
(* by 1,20,000 gives 120000.0); a rest that does not parse gives NaN.      *)
(***************************************************************************)
\* what the digits of the cell spell, NaN when they spell no number
C11_Expected ==
    IF Amounts[cleanIn.amount].value = <<>> THEN NaN
    ELSE Num(Amounts[cleanIn.amount].value[1])

\* the numeric half: the cell carries the unit that is passed, or none is passed
C11_NumericCleaned ==
    (numericOut # <<>> /\ cleanIn.prefix = "none" /\ cleanIn.token = cleanUnit) =>
        numericOut[1] = C11_Expected

\* the price half, on the text as the claim writes it (the rupee sign is U+20B9)
C11_PriceCleaned ==
    (priceOut # <<>> /\ cleanIn.token = "" /\ cleanIn.enc = "utf-8") =>
        priceOut[1] = C11_Expected

C11_FieldCleaning == C11_NumericCleaned /\ C11_PriceCleaned

(***************************************************************************)
(* C12: after ModelPredictor is constructed, whatever the model file and   *)
(* the scaler file are (present, missing, corrupt), the predictor holds    *)
(* both a model and a scaler or neither: a failed load of either leaves    *)
(* both None, the constructor does not raise, and no make_prediction call  *)
(* changes this afterwards.                                                *)
(***************************************************************************)
C12_BothOrNeither ==
    svc = "ready" =>
        /\ (selfModel = <<>>) <=> (selfScaler = <<>>)
        /\ (modelFile # "present" \/ scalerFile # "present") =>
               selfModel = <<>> /\ selfScaler = <<>>
        /\ (modelFile = "present" /\ scalerFile = "present") =>
               selfModel = <<ArtifactModel>> /\ selfScaler = <<ArtifactScaler>>
        /\ loadError = "" <=> selfModel # <<>>
        /\ MODEL_LOADED

\* the model file loaded, the scaler file did not, and a make_prediction call
\* on the predictor built from them has come back
C12_Witness ==
    /\ svc = "ready"
    /\ modelFile = "present"
    /\ scalerFile = "corrupt"
    /\ selfModel = <<>>
    /\ selfScaler = <<>>
    /\ \E t \in Threads : pc[t] = "respond" /\ mpResult[t].kind = "error"

(***************************************************************************)
(* C13: across any sequence of training runs, runs that fail during        *)
(* persistence included, the model file and the scaler file on disk were   *)
(* produced by the same run, so a serving process that loads both never    *)
(* pairs a model of one run with a scaler of another.                      *)
(***************************************************************************)
C13_SameRunArtifacts ==
    tpc # "off" =>
        /\ (diskModel # NoArtifact /\ diskScaler # NoArtifact) =>
               diskModel.run = diskScaler.run
        /\ (PredictorFromDisk.model # <<>> /\ PredictorFromDisk.scaler # <<>>) =>
               diskModel.run = diskScaler.run

====
